---- MODULE Spec2Model ----
(***************************************************************************)
(* A model of snowfake.c: the Gravner-Griffeath "snowfake" cellular        *)
(* automaton on a size x size lattice held in two buffers (sites_pages[0]  *)
(* and sites_pages[1]) that the globals sites0 (read) and sites (written)  *)
(* point to.                                                               *)
(*                                                                         *)
(* Masses are C floats in the program.  Here a mass is an integer number   *)
(* of 1/Scale units and every product or quotient is rounded down to a     *)
(* whole unit where the program rounds to the nearest float.               *)
(*                                                                         *)
(* malloc() returns storage of indeterminate content: init_sites picks     *)
(* the content of the buffers nondeterministically among JunkSites.        *)
(* malloc() is taken to succeed.                                           *)
(***************************************************************************)
EXTENDS Integers, Sequences, FiniteSets, TLC

\* ---------------------------------------------------------------- bounds
\* argv[1] is -1 or one of 0..MaxSize (atoi gives 0 for a non-number)
MaxSize == 7
\* the iteration cap of main (100000 in snowfake.c:301), scaled down
MaxIter == 30
\* number of mass units in 1.0
Scale == 10000
\* representatives of what uninitialised storage may hold
JunkMass == 20000
JunkCount == 3

Sizes == {-1} \cup (0 .. MaxSize)

\* ------------------------------------------------------------ parameters
gg_rho == (42 * Scale) \div 100
gg_kappa == (1 * Scale) \div 100
gg_beta == (19 * Scale) \div 10
gg_theta == (25 * Scale) \div 1000
gg_alpha == (8 * Scale) \div 100
gg_mu == (6 * Scale) \div 100
gg_gamma == (6 * Scale) \div 1000
gg_sigma == 0
\* a "." goes to stderr every DotEvery iterations
DotEvery == 1000
\* the literal 1.0 and the int 1 of the mass formulas
One == Scale

\* x * y for two fixed-point numbers
FMul(x, y) == (x * y) \div Scale

NoPage == -1

VARIABLES pc, size, center, sites_pages, sites0, sites, t, stop, err,
          last_written, out, assigned

vars == <<pc, size, center, sites_pages, sites0, sites, t, stop, err,
          last_written, out, assigned>>

\* ---------------------------------------------------------------- lattice
Cells == (0 .. size - 1) \X (0 .. size - 1)

InBounds(r, c) == ~(r < 0 \/ r >= size \/ c < 0 \/ c >= size)

IsInterior(x) == x[1] >= 1 /\ x[1] < size - 1 /\ x[2] >= 1 /\ x[2] < size - 1

IsEdge(x) == x \in Cells /\ ~IsInterior(x)

neighbor_offsets ==
    [i \in 0 .. 5 |->
        CASE i = 0 -> <<-1, -1>>
          [] i = 1 -> <<-1, 0>>
          [] i = 2 -> <<0, -1>>
          [] i = 3 -> <<0, 1>>
          [] i = 4 -> <<1, 0>>
          [] i = 5 -> <<1, 1>>]

\* the cell that next_neighbor stores through rp, cp
neighbor_cell(i, x) ==
    <<x[1] + neighbor_offsets[i][1], x[2] + neighbor_offsets[i][2]>>

\* the return value of next_neighbor
next_neighbor(i, x) == InBounds(neighbor_cell(i, x)[1], neighbor_cell(i, x)[2])

\* the in-bounds neighbours of x
Neighbors(x) == {neighbor_cell(i, x) : i \in {j \in 0 .. 5 : next_neighbor(j, x)}}

\* ------------------------------------------------------------------ sites
off_site ==
    [attached |-> 0, attached_neighbors |-> 0, boundary_mass |-> 0,
     crystal_mass |-> 0, diffusive_mass |-> gg_rho]

start_site ==
    [attached |-> 1, attached_neighbors |-> 0, boundary_mass |-> 0,
     crystal_mass |-> One, diffusive_mass |-> 0]

\* the members of struct site_state
Fields ==
    {"attached", "attached_neighbors", "boundary_mass", "crystal_mass",
     "diffusive_mass"}

\* what a freshly allocated struct site_state may hold
JunkSites ==
    [attached : {0, 1}, attached_neighbors : {0, JunkCount},
     boundary_mass : {0, JunkMass}, crystal_mass : {0, JunkMass},
     diffusive_mass : {0, JunkMass}]

\* ------------------------------------------------------------------- main
Init ==
    /\ pc = "main"
    /\ size = 0
    /\ center = 0
    /\ sites_pages = << >>
    /\ sites0 = NoPage
    /\ sites = NoPage
    /\ t = 0
    /\ stop = 0
    /\ err = << >>
    /\ last_written = NoPage
    /\ out = << >>
    /\ assigned = [p \in 0 .. 1 |-> [f \in Fields |-> {}]]

\* size = atoi(argv[1]); assert(size > 0);
main_args ==
    /\ pc = "main"
    /\ \E n \in Sizes :
          /\ size' = n
          /\ pc' = IF n > 0 THEN "init_sites" ELSE "aborted"
    /\ UNCHANGED <<center, sites_pages, sites0, sites, t, stop, err,
                   last_written, out, assigned>>

\* ---------------------------------------------------------- fields stored
InteriorCells == {x \in Cells : IsInterior(x)}

\* assigned with the cells w[f] added to field f of buffer p: assigned[p][f]
\* is the set of cells whose field f of sites_pages[p] some statement has
\* stored to since the malloc of lines 96-105
with_writes(p, w) ==
    [assigned EXCEPT ![p] = [f \in Fields |-> assigned[p][f] \cup w[f]]]

\* sites[r][c] = off_site and what follows it (lines 108-117) store whole
\* structs to every cell
init_writes == [f \in Fields |-> Cells]

\* diffusion stores attached_neighbors, attached and diffusive_mass of every
\* interior cell (lines 126-135)
diffusion_writes ==
    [f \in Fields |->
        IF f \in {"attached", "attached_neighbors", "diffusive_mass"}
        THEN InteriorCells ELSE {}]

\* the cells freezing and melting do not skip (lines 157, 241)
boundary_cells(g) ==
    {x \in InteriorCells : g[x].attached = 0 /\ g[x].attached_neighbors # 0}

\* freezing (lines 162-164) and melting (lines 246-248) store the three
\* masses of every cell they do not skip
boundary_writes(g) ==
    [f \in Fields |->
        IF f \in {"boundary_mass", "crystal_mass", "diffusive_mass"}
        THEN boundary_cells(g) ELSE {}]

\* attachment stores attached, crystal_mass and boundary_mass of the cells
\* it attaches and attached_neighbors of their neighbours (lines 215-227);
\* pre and post are the buffer before and after the sweep
attachment_writes(pre, post) ==
    LET joined == {x \in InteriorCells :
                      pre[x].attached = 0 /\ post[x].attached # 0}
    IN  [f \in Fields |->
            IF f \in {"attached", "boundary_mass", "crystal_mass"} THEN joined
            ELSE IF f = "attached_neighbors"
                 THEN UNION {Neighbors(x) : x \in joined}
                 ELSE {}]

\* noise stores diffusive_mass of every interior cell (line 259)
noise_writes ==
    [f \in Fields |-> IF f = "diffusive_mass" THEN InteriorCells ELSE {}]

\* ------------------------------------------------------------- init_sites
\* the first i whose assert(next_neighbor(i, center, center, ..)) fails, or 6
first_failed_neighbor(ctr) ==
    LET bad == {i \in 0 .. 5 : ~next_neighbor(i, <<ctr, ctr>>)}
    IN  IF bad = {} THEN 6 ELSE CHOOSE i \in bad : \A j \in bad : i <= j

\* the buffer that init_sites fills (lines 108-117); the neighbour loop
\* stops at the first failed assertion, and with trapped the run died on
\* the store to sites[center][center] that falls outside the lattice
init_grid(ctr, trapped) ==
    LET marked == IF trapped THEN {}
                  ELSE {neighbor_cell(i, <<ctr, ctr>>) :
                           i \in 0 .. first_failed_neighbor(ctr) - 1}
    IN  [x \in Cells |->
            IF x = <<ctr, ctr>> THEN start_site
            ELSE IF x \in marked
                 THEN [off_site EXCEPT !.attached_neighbors = 1]
                 ELSE off_site]

\* init_sites without the assertion of line 95
init_sites_unchecked ==
    /\ pc = "init_sites"
    /\ LET ctr == size \div 2 + 1
       IN  \E junk \in JunkSites :
           \E trapped \in (IF InBounds(ctr, ctr) THEN {FALSE} ELSE BOOLEAN) :
              /\ center' = ctr
              /\ sites_pages' = [p \in 0 .. 1 |->
                     IF p = 1 THEN init_grid(ctr, trapped)
                     ELSE [x \in Cells |-> junk]]
              /\ assigned' = with_writes(1, init_writes)
              /\ IF first_failed_neighbor(ctr) < 6 \/ trapped
                 THEN /\ pc' = "aborted"
                      /\ sites0' = 0
                      /\ sites' = 1
                      /\ t' = t
                 ELSE /\ pc' = "loop"
                      /\ sites0' = 1
                      /\ sites' = 0
                      /\ t' = 1
    /\ UNCHANGED <<size, stop, err, last_written, out>>

\* init_sites(), and the int t = 1 that follows it in main
init_sites ==
    /\ pc = "init_sites"
    /\ IF size % 2 # 1
       THEN /\ pc' = "aborted"
            /\ UNCHANGED <<center, sites_pages, sites0, sites, t, assigned>>
       ELSE LET ctr == size \div 2 + 1
            IN  \E junk \in JunkSites :
                \E trapped \in (IF InBounds(ctr, ctr) THEN {FALSE} ELSE BOOLEAN) :
                   /\ center' = ctr
                   /\ sites_pages' = [p \in 0 .. 1 |->
                          IF p = 1 THEN init_grid(ctr, trapped)
                          ELSE [x \in Cells |-> junk]]
                   /\ assigned' = with_writes(1, init_writes)
                   /\ IF first_failed_neighbor(ctr) < 6 \/ trapped
                      THEN /\ pc' = "aborted"
                           /\ sites0' = 0
                           /\ sites' = 1
                           /\ t' = t
                      ELSE \* flip_sites()
                           /\ pc' = "loop"
                           /\ sites0' = 1
                           /\ sites' = 0
                           /\ t' = 1
    /\ UNCHANGED <<size, stop, err, last_written, out>>

\* ---------------------------------------------------------------- passes
\* the k-th cell of the sweep for (r = 1..size-2) for (c = 1..size-2)
interior_count == (size - 2) * (size - 2)

interior_cell(k) == <<1 + (k \div (size - 2)), 1 + (k % (size - 2))>>

\* the neighbour loop without the reflective boundary of lines 143-146
RECURSIVE diffusion_sum_unreflected(_, _, _, _)
diffusion_sum_unreflected(g0, x, i, acc) ==
    IF i = 6 THEN acc
    ELSE IF ~next_neighbor(i, x)
         THEN diffusion_sum_unreflected(g0, x, i + 1, acc)
    ELSE diffusion_sum_unreflected(g0, x, i + 1,
             acc + g0[neighbor_cell(i, x)].diffusive_mass \div 7)

\* lines 137-149: the loop over the six neighbours, from neighbour i on
RECURSIVE diffusion_sum(_, _, _, _)
diffusion_sum(g0, x, i, acc) ==
    IF i = 6 THEN acc
    ELSE IF ~next_neighbor(i, x) THEN diffusion_sum(g0, x, i + 1, acc)
    ELSE LET n == neighbor_cell(i, x)
             src == IF g0[n].attached # 0 THEN x ELSE n
         IN  diffusion_sum(g0, x, i + 1, acc + g0[src].diffusive_mass \div 7)

\* lines 126-149: what diffusion leaves in sites[r][c]
diffusion_site(g, g0, x) ==
    LET copied == [g[x] EXCEPT !.attached_neighbors = g0[x].attached_neighbors,
                               !.attached = g0[x].attached]
    IN  IF copied.attached # 0
        THEN [copied EXCEPT !.diffusive_mass = 0]
        ELSE [copied EXCEPT !.diffusive_mass =
                 diffusion_sum(g0, x, 0, g0[x].diffusive_mass \div 7)]

\* diffusion(): g is the buffer sites, g0 the buffer sites0
diffusion_grid(g, g0) ==
    [x \in Cells |-> IF IsInterior(x) THEN diffusion_site(g, g0, x) ELSE g[x]]

\* lines 157-164
freezing_site(g, g0, x) ==
    IF g[x].attached # 0 \/ g[x].attached_neighbors = 0
    THEN g[x]
    ELSE LET b0 == g0[x].boundary_mass
             c0 == g0[x].crystal_mass
             d0 == g[x].diffusive_mass
         IN  [g[x] EXCEPT !.diffusive_mass = 0,
                          !.crystal_mass = c0 + FMul(gg_kappa, d0),
                          !.boundary_mass = b0 + FMul(One - gg_kappa, d0)]

freezing_grid(g, g0) ==
    [x \in Cells |-> IF IsInterior(x) THEN freezing_site(g, g0, x) ELSE g[x]]

\* lines 203-209: the cell's diffusive mass plus that of its neighbours
RECURSIVE neighborhood_mass(_, _, _, _)
neighborhood_mass(g, x, i, acc) ==
    IF i = 6 THEN acc
    ELSE IF ~next_neighbor(i, x) THEN neighborhood_mass(g, x, i + 1, acc)
    ELSE neighborhood_mass(g, x, i + 1,
                           acc + g[neighbor_cell(i, x)].diffusive_mass)

\* the switch with case 3 falling into the rule of cases 1 and 2
attaches_without_concavity(g, x) ==
    CASE g[x].attached_neighbors = 0 -> FALSE
      [] g[x].attached_neighbors \in {1, 2, 3} -> g[x].boundary_mass >= gg_beta
      [] OTHER -> TRUE

\* lines 175-216: the switch on attached_neighbors of an unattached cell
attaches(g, x) ==
    CASE g[x].attached_neighbors = 0 -> FALSE
      [] g[x].attached_neighbors \in {1, 2} -> g[x].boundary_mass >= gg_beta
      [] g[x].attached_neighbors = 3 ->
            \/ g[x].boundary_mass >= One
            \/ /\ ~(g[x].boundary_mass < gg_alpha)
               /\ neighborhood_mass(g, x, 0, g[x].diffusive_mass) < gg_theta
      [] OTHER -> TRUE

\* lines 217-231: the cell x joins the crystal
attach_site(g, x) ==
    [y \in Cells |->
        IF y = x
        THEN [g[x] EXCEPT !.attached = 1,
                          !.crystal_mass = g[x].crystal_mass + g[x].boundary_mass,
                          !.boundary_mass = 0]
        ELSE IF y \in Neighbors(x)
             THEN [g[y] EXCEPT !.attached_neighbors = @ + 1]
             ELSE g[y]]

\* line 230
in_outer_third(x) ==
    LET ss == size \div 3
    IN  x[1] < ss \/ x[1] >= size - ss \/ x[2] < ss \/ x[2] >= size - ss

\* attachment() returning as soon as stop is set
RECURSIVE attachment_sweep_until_stop(_, _, _)
attachment_sweep_until_stop(g, k, st) ==
    IF k = interior_count \/ st # 0 THEN [grid |-> g, stop |-> st]
    ELSE LET x == interior_cell(k)
         IN  IF g[x].attached # 0 THEN attachment_sweep_until_stop(g, k + 1, st)
             ELSE IF ~attaches(g, x) THEN attachment_sweep_until_stop(g, k + 1, st)
             ELSE attachment_sweep_until_stop(attach_site(g, x), k + 1,
                                   IF in_outer_third(x) THEN 1 ELSE st)

\* attachment(): the sweep from the k-th interior cell on; st is stop
RECURSIVE attachment_sweep(_, _, _)
attachment_sweep(g, k, st) ==
    IF k = interior_count THEN [grid |-> g, stop |-> st]
    ELSE LET x == interior_cell(k)
         IN  IF g[x].attached # 0 THEN attachment_sweep(g, k + 1, st)
             ELSE IF ~attaches(g, x) THEN attachment_sweep(g, k + 1, st)
             ELSE attachment_sweep(attach_site(g, x), k + 1,
                                   IF in_outer_third(x) THEN 1 ELSE st)

\* lines 241-248
melting_site(g, x) ==
    IF g[x].attached # 0 \/ g[x].attached_neighbors = 0
    THEN g[x]
    ELSE LET b0 == g[x].boundary_mass
             c0 == g[x].crystal_mass
             d0 == g[x].diffusive_mass
         IN  [g[x] EXCEPT !.boundary_mass = FMul(One - gg_mu, b0),
                          !.crystal_mass = FMul(One - gg_gamma, c0),
                          !.diffusive_mass =
                              d0 + FMul(gg_mu, b0) + FMul(gg_gamma, c0)]

melting_grid(g) ==
    [x \in Cells |-> IF IsInterior(x) THEN melting_site(g, x) ELSE g[x]]

\* the low bits that random() returns over one sweep of noise(): one of a
\* few patterns over the lattice
NoisePatterns == 0 .. 3

random_bit(pat, x) ==
    CASE pat = 0 -> 0
      [] pat = 1 -> 1
      [] pat = 2 -> (x[1] + x[2]) % 2
      [] pat = 3 -> x[1] % 2

\* lines 256-259
noise_site(g, pat, x) ==
    LET sigma == IF random_bit(pat, x) = 0 THEN 0 - gg_sigma ELSE gg_sigma
    IN  [g[x] EXCEPT !.diffusive_mass = FMul(@, One + sigma)]

noise_grid(g, pat) ==
    [x \in Cells |-> IF IsInterior(x) THEN noise_site(g, pat, x) ELSE g[x]]

\* lines 274-287: the circles render prints, one per attached cell of g,
\* from the k-th cell of the lattice on
RECURSIVE render_circles(_, _)
render_circles(g, k) ==
    IF k = size * size THEN << >>
    ELSE LET x == <<k \div size, k % size>>
         IN  IF g[x].attached = 0 THEN render_circles(g, k + 1)
             ELSE <<[r |-> x[1], c |-> x[2], mass |-> g[x].crystal_mass]>>
                   \o render_circles(g, k + 1)

\* ------------------------------------------------------------ main's loop
\* main_loop with the cap branch leaving the loop silently
main_loop_no_marker ==
    /\ pc = "loop"
    /\ LET dotted == IF t % DotEvery = 0 THEN Append(err, ".") ELSE err
       IN  IF t >= MaxIter
           THEN /\ err' = dotted
                /\ pc' = "render"
           ELSE /\ err' = dotted
                /\ pc' = "diffusion"
    /\ UNCHANGED <<size, center, sites_pages, sites0, sites, t, stop,
                   last_written, out, assigned>>

\* lines 299-304
main_loop ==
    /\ pc = "loop"
    /\ LET dotted == IF t % DotEvery = 0 THEN Append(err, ".") ELSE err
       IN  IF t >= MaxIter
           THEN /\ err' = Append(dotted, "!")
                /\ pc' = "render"
           ELSE /\ err' = dotted
                /\ pc' = "diffusion"
    /\ UNCHANGED <<size, center, sites_pages, sites0, sites, t, stop,
                   last_written, out, assigned>>

diffusion ==
    /\ pc = "diffusion"
    /\ sites_pages' = [sites_pages EXCEPT ![sites] =
                          diffusion_grid(sites_pages[sites], sites_pages[sites0])]
    /\ last_written' = sites
    /\ assigned' = with_writes(sites, diffusion_writes)
    /\ pc' = "freezing"
    /\ UNCHANGED <<size, center, sites0, sites, t, stop, err, out>>

freezing ==
    /\ pc = "freezing"
    /\ sites_pages' = [sites_pages EXCEPT ![sites] =
                          freezing_grid(sites_pages[sites], sites_pages[sites0])]
    /\ assigned' = with_writes(sites, boundary_writes(sites_pages[sites]))
    /\ pc' = "attachment"
    /\ UNCHANGED <<size, center, sites0, sites, t, stop, err, last_written, out>>

\* int stop = attachment(); if (stop) break;
attachment ==
    /\ pc = "attachment"
    /\ LET res == attachment_sweep(sites_pages[sites], 0, 0)
       IN  /\ sites_pages' = [sites_pages EXCEPT ![sites] = res.grid]
           /\ assigned' = with_writes(sites,
                              attachment_writes(sites_pages[sites], res.grid))
           /\ stop' = res.stop
           /\ pc' = IF res.stop # 0 THEN "render" ELSE "melting"
    /\ UNCHANGED <<size, center, sites0, sites, t, err, last_written, out>>

\* the noise pass gated on gg_sigma instead of gg_gamma
melting_then_noise_if_sigma ==
    /\ pc = "melting"
    /\ sites_pages' = [sites_pages EXCEPT ![sites] =
                          melting_grid(sites_pages[sites])]
    /\ assigned' = with_writes(sites, boundary_writes(sites_pages[sites]))
    /\ pc' = IF gg_sigma > 0 THEN "noise" ELSE "flip"
    /\ UNCHANGED <<size, center, sites0, sites, t, stop, err, last_written, out>>

\* melting(); if (gg_gamma > 0) ...
melting ==
    /\ pc = "melting"
    /\ sites_pages' = [sites_pages EXCEPT ![sites] =
                          melting_grid(sites_pages[sites])]
    /\ assigned' = with_writes(sites, boundary_writes(sites_pages[sites]))
    /\ pc' = IF gg_gamma > 0 THEN "noise" ELSE "flip"
    /\ UNCHANGED <<size, center, sites0, sites, t, stop, err, last_written, out>>

noise ==
    /\ pc = "noise"
    /\ \E pat \in NoisePatterns :
          sites_pages' = [sites_pages EXCEPT ![sites] =
                             noise_grid(sites_pages[sites], pat)]
    /\ assigned' = with_writes(sites, noise_writes)
    /\ pc' = "flip"
    /\ UNCHANGED <<size, center, sites0, sites, t, stop, err, last_written, out>>

\* flip_sites(); t++;
flip_sites ==
    /\ pc = "flip"
    /\ sites' = sites0
    /\ sites0' = sites
    /\ t' = t + 1
    /\ pc' = "loop"
    /\ UNCHANGED <<size, center, sites_pages, stop, err, last_written, out,
                   assigned>>

\* fprintf(stderr, "\n"); render();
render ==
    /\ pc = "render"
    /\ err' = Append(err, "\n")
    /\ out' = render_circles(sites_pages[sites], 0)
    /\ pc' = "done"
    /\ UNCHANGED <<size, center, sites_pages, sites0, sites, t, stop,
                   last_written, assigned>>

Next ==
    \/ main_args
    \/ init_sites
    \/ main_loop
    \/ diffusion
    \/ freezing
    \/ attachment
    \/ melting
    \/ noise
    \/ flip_sites
    \/ render

Spec == Init /\ [][Next]_vars

\* a sequential program always takes its next step
FairSpec == Spec /\ WF_vars(Next)

\* ------------------------------------------------------ grids of the claims
\* the buffer being written, and the buffer being read
Written == sites_pages[sites]
Previous == sites_pages[sites0]

\* iteration t has run all of its passes: sites holds the grid of iteration t
\* and, from the second iteration on, sites0 the grid of iteration t - 1
IterationDone == pc = "flip" \/ (pc \in {"render", "done"} /\ stop # 0)

ValidSize == size > 0 /\ size % 2 = 1

\* C1: a cell that is attached in the grid of iteration t - 1 is attached in
\* the grid of iteration t.
C1_AttachedMonotone ==
    (IterationDone /\ t >= 2) =>
        \A x \in Cells : Previous[x].attached # 0 => Written[x].attached # 0

\* C2: an attached cell's crystal_mass in the grid of iteration t is at
\* least its crystal_mass in the grid of iteration t - 1.
C2_CrystalMassMonotone ==
    (IterationDone /\ t >= 2) =>
        \A x \in Cells :
            Previous[x].attached # 0 =>
                Written[x].crystal_mass >= Previous[x].crystal_mass

\* the k-th cell of the whole lattice, row by row
lattice_cell(k) == <<k \div size, k % size>>

site_mass(s) == s.boundary_mass + s.crystal_mass + s.diffusive_mass

\* the mass of the cells k, k + 1, .. of grid g
RECURSIVE total_mass(_, _)
total_mass(g, k) ==
    IF k = size * size THEN 0
    ELSE site_mass(g[lattice_cell(k)]) + total_mass(g, k + 1)

\* what the interior cell x gains from its edge neighbours i, i + 1, ..
\* when diffusion reads g0: it takes a seventh of what it reads in place of
\* each edge neighbour and gives a seventh of its own mass
RECURSIVE edge_gain(_, _, _)
edge_gain(g0, x, i) ==
    IF i = 6 THEN 0
    ELSE IF ~next_neighbor(i, x) \/ IsInterior(neighbor_cell(i, x))
         THEN edge_gain(g0, x, i + 1)
    ELSE LET n == neighbor_cell(i, x)
             src == IF g0[n].attached # 0 THEN x ELSE n
         IN  g0[src].diffusive_mass \div 7 - g0[x].diffusive_mass \div 7
               + edge_gain(g0, x, i + 1)

\* the mass that the diffusion pass reading g0 exchanges with edge cells,
\* over the interior cells k, k + 1, ..
RECURSIVE edge_exchange(_, _)
edge_exchange(g0, k) ==
    IF k = interior_count THEN 0
    ELSE (IF g0[interior_cell(k)].attached # 0 THEN 0
          ELSE edge_gain(g0, interior_cell(k), 0))
         + edge_exchange(g0, k + 1)

\* rounding: at most 16 units a cell and iteration
MassTolerance == 16 * size * size

Abs(n) == IF n < 0 THEN 0 - n ELSE n

\* C3: the total mass of the grid of iteration t differs from that of the
\* grid of iteration t - 1 by the mass exchanged with edge cells during
\* diffusion, up to rounding.
C3_MassConserved ==
    (IterationDone /\ t >= 2) =>
        Abs(total_mass(Written, 0) - total_mass(Previous, 0)
              - edge_exchange(Previous, 0)) <= MassTolerance

\* C4: when the loop has ended, render reads the buffer that the last
\* executed iteration wrote.
C4_RenderReadsLastGrid ==
    pc \in {"render", "done"} => sites = last_written

\* C5: attached_neighbors of every cell, edge cells included, is in the grid
\* of iteration t at least what it is in the grid of iteration t - 1.
C5_NeighborCountMonotone ==
    (IterationDone /\ t >= 2) =>
        \A x \in Cells :
            Written[x].attached_neighbors >= Previous[x].attached_neighbors

\* the buffer that init_sites or the last pass wrote
LastWritten == IF pc = "loop" THEN Previous ELSE Written

AfterInitOrPass ==
    \/ pc \in {"loop", "freezing", "attachment", "melting", "noise", "flip"}
    \/ pc \in {"render", "done"} /\ stop # 0

attached_neighbor_count(g, x) ==
    Cardinality({n \in Neighbors(x) : g[n].attached # 0})

\* C6: after init_sites and after every pass, attached_neighbors of every
\* interior cell of the grid written is the number of its attached
\* neighbours in that grid, a number of 0..6.
C6_NeighborCountExact ==
    AfterInitOrPass =>
        \A x \in Cells :
            IsInterior(x) =>
                /\ LastWritten[x].attached_neighbors
                       = attached_neighbor_count(LastWritten, x)
                /\ LastWritten[x].attached_neighbors \in 0 .. 6

\* init_sites has returned or has aborted, and no pass has run yet
AfterInitSites ==
    /\ pc \in {"loop", "aborted"}
    /\ t <= 1
    /\ sites_pages # << >>

initial_grid_ok(g) ==
    LET ctr == <<center, center>>
    IN  /\ ctr \in Cells
        /\ \A x \in Cells : g[x].attached # 0 <=> x = ctr
        /\ g[ctr].crystal_mass = One
        /\ Cardinality(Neighbors(ctr)) = 6
        /\ \A x \in Cells :
              g[x].attached_neighbors = IF x \in Neighbors(ctr) THEN 1 ELSE 0
        /\ \A x \in Cells :
              g[x].attached = 0 =>
                 /\ g[x].diffusive_mass = gg_rho
                 /\ g[x].boundary_mass = 0
                 /\ g[x].crystal_mass = 0

\* C7: for every odd positive size, init_sites returns and leaves in the
\* authoritative grid one attached cell, the centre, with crystal_mass 1,
\* attached_neighbors 1 on its six neighbours and 0 elsewhere, and rho with
\* no boundary or crystal mass in every unattached cell.
C7_InitialGrid ==
    (ValidSize /\ AfterInitSites) =>
        (pc = "loop" /\ initial_grid_ok(Previous))

\* C8: a run with size 3 does not abort.
C8_Size3Runs ==
    size = 3 => pc # "aborted"

\* C9: every run with an odd positive size reaches render, after fewer than
\* MaxIter iterations.
C9_Terminates ==
    /\ (pc = "init_sites" /\ ValidSize) ~> (pc = "render")
    /\ [](pc \in {"diffusion", "freezing", "attachment", "melting", "noise",
                  "flip"} => t < MaxIter)

Range(f) == {f[i] : i \in DOMAIN f}

LoopLeftByCap == pc \in {"render", "done"} /\ stop = 0

\* C10: "!" is on stderr exactly when the loop was left because t reached
\* the cap, and never in a run that attachment stopped.
C10_MarkerIffCap ==
    /\ "!" \in Range(err) => (LoopLeftByCap /\ t >= MaxIter)
    /\ LoopLeftByCap => "!" \in Range(err)
    /\ stop # 0 => "!" \notin Range(err)

C10_Witness ==
    pc = "done" /\ stop = 0 /\ t >= MaxIter /\ "!" \in Range(err)

\* ------------------------------------------------------------ whole runs
\* lines 298-315 run to the end from the top of the loop with counter tt:
\* the buffer that sites points to when the loop is left.  The noise pass
\* multiplies by 1 + gg_sigma or 1 - gg_sigma, the same for gg_sigma = 0,
\* so the bits of the random source are taken to be those of pattern 0
\* the grid g as an explicit table of its cells k, k + 1, ..
RECURSIVE grid_table(_, _)
grid_table(g, k) ==
    IF k = size * size - 1 THEN lattice_cell(k) :> g[lattice_cell(k)]
    ELSE (lattice_cell(k) :> g[lattice_cell(k)]) @@ grid_table(g, k + 1)

RECURSIVE run_loop(_, _, _, _)
run_loop(pages, s, s0, tt) ==
    IF tt >= MaxIter THEN pages[s]
    ELSE LET diffused == grid_table(diffusion_grid(pages[s], pages[s0]), 0)
             frozen == grid_table(freezing_grid(diffused, pages[s0]), 0)
             res == attachment_sweep(frozen, 0, 0)
             melted == grid_table(melting_grid(res.grid), 0)
             noised == IF gg_gamma > 0 THEN grid_table(noise_grid(melted, 0), 0)
                       ELSE melted
         IN  IF res.stop # 0 THEN res.grid
             ELSE run_loop([pages EXCEPT ![s] = noised], s0, s, tt + 1)

\* the cells that render draws in the run whose second buffer is filled
\* with junk by malloc
attached_cells_of_run(junk) ==
    LET pages == [p \in 0 .. 1 |->
                     IF p = 1 THEN init_grid(center, FALSE)
                     ELSE [x \in Cells |-> junk]]
        final == run_loop(pages, 0, 1, 1)
    IN  {x \in Cells : final[x].attached # 0}

zero_site ==
    [attached |-> 0, attached_neighbors |-> 0, boundary_mass |-> 0,
     crystal_mass |-> 0, diffusive_mass |-> 0]

\* C11: the set of attached cells that render draws is the same in every
\* run with the same size: it is the set drawn by the run whose second
\* buffer malloc has filled with zeros.
C11_ResultIndependentOfBuffer ==
    pc = "done" =>
        {<<circle.r, circle.c>> : circle \in Range(out)}
            = attached_cells_of_run(zero_site)

\* no buffer exists, no pass has run and nothing was rendered
NothingDone ==
    /\ sites_pages = << >>
    /\ sites = NoPage
    /\ sites0 = NoPage
    /\ last_written = NoPage
    /\ t = 0
    /\ out = << >>

\* C12: a run whose size is not positive or not odd writes no grid cell and
\* executes no pass and no render, and its next step after the assertion
\* of main is the abort in init_sites.
C12_InvalidSizeAborts ==
    /\ []((pc # "main" /\ ~ValidSize) =>
             (pc \in {"init_sites", "aborted"} /\ NothingDone))
    /\ [][(pc = "init_sites" /\ ~ValidSize) => pc' = "aborted"]_vars

C12_Witness ==
    pc = "aborted" /\ size = 2 /\ NothingDone

\* the edge cells whose diffusive_mass the diffusion pass reading g0 reads
\* (line 148): the unattached edge neighbours of unattached interior cells
edge_cells_read(g0) ==
    {n \in Cells :
        /\ IsEdge(n)
        /\ g0[n].attached = 0
        /\ \E x \in Cells :
              IsInterior(x) /\ g0[x].attached = 0 /\ n \in Neighbors(x)}

\* C13: when a diffusion pass starts, every edge cell of the buffer it
\* reads whose diffusive_mass an interior cell will read holds rho.
C13_EdgeHoldsRho ==
    pc = "diffusion" =>
        \A n \in edge_cells_read(Previous) :
            Previous[n].diffusive_mass = gg_rho

\* what the unattached cell x takes in place of its i-th neighbour's mass
reflected_mass(g0, x, i) ==
    IF g0[neighbor_cell(i, x)].attached # 0
    THEN g0[x].diffusive_mass
    ELSE g0[neighbor_cell(i, x)].diffusive_mass

\* own previous mass plus the six masses taken for the neighbours
stencil_mass(g0, x) ==
    g0[x].diffusive_mass
      + reflected_mass(g0, x, 0) + reflected_mass(g0, x, 1)
      + reflected_mass(g0, x, 2) + reflected_mass(g0, x, 3)
      + reflected_mass(g0, x, 4) + reflected_mass(g0, x, 5)

\* C14: after diffusion every unattached interior cell has its six
\* neighbours in bounds and holds a seventh of its own previous mass plus
\* the previous masses of the neighbours, its own mass taken for attached
\* neighbours, up to the rounding of the seven quotients; every attached
\* interior cell holds diffusive_mass 0 and the attached flag and
\* attached_neighbors of the previous grid.
C14_DiffusionStencil ==
    pc = "freezing" =>
        \A x \in Cells :
            IsInterior(x) =>
                IF Previous[x].attached = 0
                THEN /\ Written[x].attached = 0
                     /\ \A i \in 0 .. 5 : neighbor_cell(i, x) \in Cells
                     /\ 7 * Written[x].diffusive_mass <= stencil_mass(Previous, x)
                     /\ stencil_mass(Previous, x)
                            < 7 * (Written[x].diffusive_mass + 7)
                ELSE /\ Written[x].diffusive_mass = 0
                     /\ Written[x].attached = Previous[x].attached
                     /\ Written[x].attached_neighbors
                            = Previous[x].attached_neighbors

\* diffusion has just averaged a cell next to the crystal
C14_Witness ==
    /\ pc = "freezing"
    /\ t >= 2
    /\ \E x \in Cells :
          /\ IsInterior(x)
          /\ Previous[x].attached = 0
          /\ Written[x].diffusive_mass > 0
          /\ \E n \in Neighbors(x) : IsInterior(n) /\ Previous[n].attached # 0

\* the interior cells that one attachment pass attaches: pre is the buffer
\* before the pass and post the buffer after it
newly_attached(pre, post) ==
    {x \in Cells : IsInterior(x) /\ pre[x].attached = 0 /\ post[x].attached # 0}

\* y is visited before x by for (r ..) for (c ..)
visited_before(y, x) == y[1] < x[1] \/ (y[1] = x[1] /\ y[2] < x[2])

\* attached_neighbors of x at the moment the sweep visits it
count_at_visit(pre, post, x) ==
    pre[x].attached_neighbors
      + Cardinality({y \in Neighbors(x) \cap newly_attached(pre, post) :
                        visited_before(y, x)})

\* the diffusive mass of x and of its six neighbours
vapor_around(pre, x) ==
    pre[x].diffusive_mass
      + pre[neighbor_cell(0, x)].diffusive_mass
      + pre[neighbor_cell(1, x)].diffusive_mass
      + pre[neighbor_cell(2, x)].diffusive_mass
      + pre[neighbor_cell(3, x)].diffusive_mass
      + pre[neighbor_cell(4, x)].diffusive_mass
      + pre[neighbor_cell(5, x)].diffusive_mass

\* the attachment rule of the table of section 4.4 for the cell x
attachment_rule(pre, post, x) ==
    LET n == count_at_visit(pre, post, x)
        b == pre[x].boundary_mass
    IN  \/ n \in {1, 2} /\ b >= gg_beta
        \/ n = 3 /\ (b >= One \/ (b >= gg_alpha /\ vapor_around(pre, x) < gg_theta))
        \/ n >= 4

\* C15: in an attachment pass an unattached interior cell attaches exactly
\* when the rule holds for its attached_neighbors as of its visit in
\* row-major order, the increments of the cells attached earlier in the
\* sweep included; a cell with count 0 never attaches.
C15_AttachmentRule ==
    [][pc = "attachment" =>
          \A x \in Cells :
              (IsInterior(x) /\ sites_pages[sites][x].attached = 0) =>
                  (sites_pages'[sites][x].attached # 0
                     <=> attachment_rule(sites_pages[sites],
                                         sites_pages'[sites], x))]_vars

\* the cells that the attachment pass of this iteration has attached
attached_this_pass == newly_attached(Previous, Written)

\* an attachment pass has attached a cell whose count an earlier attachment
\* of the same sweep had raised
C15_Witness ==
    /\ pc \in {"melting", "render"}
    /\ \E x \in attached_this_pass :
          \E y \in attached_this_pass :
              y \in Neighbors(x) /\ visited_before(y, x)

\* row or column below size/3 or from size - size/3 on
outer_third(x) ==
    \/ x[1] < size \div 3
    \/ x[1] >= size - size \div 3
    \/ x[2] < size \div 3
    \/ x[2] >= size - size \div 3

\* C16: attachment returns stop = 1 exactly when a cell attached in that
\* pass lies in the outer third, and the cells visited after such a cell
\* are still attached by the rule.
C16_StopIffOuterThird ==
    [][pc = "attachment" =>
          LET pre == sites_pages[sites]
              post == sites_pages'[sites]
          IN  /\ stop' \in {0, 1}
              /\ stop' = 1 <=> \E x \in newly_attached(pre, post) : outer_third(x)
              /\ \A y \in newly_attached(pre, post) :
                 \A x \in Cells :
                    (/\ outer_third(y)
                     /\ visited_before(y, x)
                     /\ IsInterior(x)
                     /\ pre[x].attached = 0
                     /\ attachment_rule(pre, post, x))
                        => post[x].attached # 0]_vars

\* a pass has signalled stop and has attached a cell after the one in the
\* outer third
C16_Witness ==
    /\ pc = "render"
    /\ stop = 1
    /\ \E y \in attached_this_pass :
          /\ outer_third(y)
          /\ \E x \in attached_this_pass : visited_before(y, x)

\* C17: the steps of an iteration follow each other as diffusion, freezing,
\* attachment, melting, noise, swap; the swap with t++ happens once, at the
\* end of an iteration that did not stop, and an iteration whose attachment
\* signals stop goes to render without melting, noise or swap; every pass
\* leaves the buffer sites0 alone.
C17_PassOrder ==
    [][/\ pc = "loop" => pc' \in {"diffusion", "render"}
       /\ pc = "diffusion" => pc' = "freezing"
       /\ pc = "freezing" => pc' = "attachment"
       /\ pc = "attachment" => pc' = IF stop' # 0 THEN "render" ELSE "melting"
       /\ pc = "melting" => pc' = "noise"
       /\ pc = "noise" => pc' = "flip"
       /\ pc = "flip" =>
             (pc' = "loop" /\ sites' = sites0 /\ sites0' = sites /\ t' = t + 1)
       /\ pc = "render" => pc' = "done"
       /\ (sites' # sites \/ sites0' # sites0 \/ t' # t) =>
             pc \in {"init_sites", "flip"}
       /\ pc \in {"diffusion", "freezing", "attachment", "melting", "noise"} =>
             sites_pages'[sites0] = sites_pages[sites0]]_vars

\* two full iterations have been executed
C17_Witness ==
    pc = "loop" /\ t = 3 /\ stop = 0

\* the edge cell s is as before the step, or only its diffusive_mass was
\* refreshed to rho
edge_site_kept(before, after) ==
    \/ after = before
    \/ after = [before EXCEPT !.diffusive_mass = gg_rho]

\* C18: no pass changes a field of an edge cell of either buffer, apart from
\* a refresh of diffusive_mass to rho.
C18_EdgeCellsUntouched ==
    [][(pc \in {"diffusion", "freezing", "attachment", "melting", "noise"}) =>
          (\A p \in 0 .. 1 :
              \A x \in Cells :
                 IsEdge(x) =>
                    edge_site_kept(sites_pages[p][x], sites_pages'[p][x]))]_vars

\* ----------------------------------------------------- reads of the passes
\* the reads <<p, f, x>> of field f of cell x of buffer p that a pass makes
\* before it has stored to that field itself

\* lines 126-148: attached_neighbors and attached of every interior cell of
\* sites0, and for an unattached one its diffusive_mass, attached of its
\* neighbours and diffusive_mass of the unattached ones among them
diffusion_reads ==
    LET g0 == sites_pages[sites0]
        vapor == {x \in InteriorCells : g0[x].attached = 0}
        around == UNION {Neighbors(x) : x \in vapor}
    IN  {<<sites0, f, x>> : f \in {"attached_neighbors", "attached"},
                            x \in InteriorCells}
          \cup {<<sites0, "diffusive_mass", x>> : x \in vapor}
          \cup {<<sites0, "attached", n>> : n \in around}
          \cup {<<sites0, "diffusive_mass", n>> :
                   n \in {m \in around : g0[m].attached = 0}}

\* lines 157-161
freezing_reads ==
    LET g == sites_pages[sites]
    IN  {<<sites, "attached", x>> : x \in InteriorCells}
          \cup {<<sites, "attached_neighbors", x>> :
                   x \in {y \in InteriorCells : g[y].attached = 0}}
          \cup {<<sites, "diffusive_mass", x>> : x \in boundary_cells(g)}
          \cup {<<sites0, f, x>> : f \in {"boundary_mass", "crystal_mass"},
                                  x \in boundary_cells(g)}

\* lines 173-227: the switch reads attached, attached_neighbors and, by the
\* case taken, boundary_mass and the diffusive_mass of the cell and of its
\* neighbours; attached_neighbors++ and crystal_mass += boundary_mass read
\* what they add to
attachment_reads ==
    LET pre == sites_pages[sites]
        post == attachment_sweep(pre, 0, 0).grid
        joined == newly_attached(pre, post)
        open == {x \in InteriorCells : pre[x].attached = 0}
        weighed == {x \in open : count_at_visit(pre, post, x) \in 1 .. 3}
        concave == {x \in open : /\ count_at_visit(pre, post, x) = 3
                                  /\ pre[x].boundary_mass < One
                                  /\ ~(pre[x].boundary_mass < gg_alpha)}
    IN  {<<sites, "attached", x>> : x \in InteriorCells}
          \cup {<<sites, "attached_neighbors", x>> :
                   x \in open \cup UNION {Neighbors(y) : y \in joined}}
          \cup {<<sites, "boundary_mass", x>> : x \in weighed \cup joined}
          \cup {<<sites, "crystal_mass", x>> : x \in joined}
          \cup {<<sites, "diffusive_mass", x>> :
                   x \in concave \cup UNION {Neighbors(y) : y \in concave}}

\* lines 241-245
melting_reads ==
    LET g == sites_pages[sites]
    IN  {<<sites, "attached", x>> : x \in InteriorCells}
          \cup {<<sites, "attached_neighbors", x>> :
                   x \in {y \in InteriorCells : g[y].attached = 0}}
          \cup {<<sites, f, x>> :
                   f \in {"boundary_mass", "crystal_mass", "diffusive_mass"},
                   x \in boundary_cells(g)}

\* line 259
noise_reads == {<<sites, "diffusive_mass", x>> : x \in InteriorCells}

\* lines 274-287: attached of every cell, crystal_mass of the attached ones
render_reads ==
    {<<sites, "attached", x>> : x \in Cells}
      \cup {<<sites, "crystal_mass", x>> :
               x \in {y \in Cells : sites_pages[sites][y].attached # 0}}

\* the reads of the pass that is about to run
pass_reads ==
    CASE pc = "diffusion" -> diffusion_reads
      [] pc = "freezing" -> freezing_reads
      [] pc = "attachment" -> attachment_reads
      [] pc = "melting" -> melting_reads
      [] pc = "noise" -> noise_reads
      [] pc = "render" -> render_reads
      [] OTHER -> {}

\* C19: every field that a pass or render reads has been stored to before,
\* by init_sites or by an earlier pass on the same buffer.
C19_ReadsWrittenFields ==
    \A rd \in pass_reads : rd[3] \in assigned[rd[1]][rd[2]]
====
